---- MODULE Spec2Model ----
(***************************************************************************)
(* Simulated minimum distance (SMD) estimation, notebook 12/SMD.ipynb.     *)
(*                                                                         *)
(* The notebook is a sequence of cells run top to bottom.  Its state is    *)
(* the set of notebook globals (par, true, w, e, con, lab, mom_data,       *)
(* est_par, theta0, obj_at_theta0, results) plus the state of numpy's      *)
(* global random generator; w_gen, gen and log are history variables       *)
(* (log keeps the first call of the objective and the call before the      *)
(* latest one).                                                            *)
(* Each cell is one action; the minimizer's calls of the objective are     *)
(* one action per call.                                                    *)
(*                                                                         *)
(* Numbers.  A float64 is modelled as a record [fin, v]: a finite value    *)
(* v / SCALE (fixed point, truncating), or NaN, which stands for any       *)
(* non-finite double (nan, +inf, -inf).  Arithmetic on NaN gives NaN.      *)
(***************************************************************************)
EXTENDS Integers, Sequences, FiniteSets, TLC

VARIABLES pc, rng, par, true, n, w, e, con, lab, mom_data, est_par, theta0,
          obj_at_theta0, last, ncalls, nfev, best, results, w_gen, gen, log

vars == <<pc, rng, par, true, n, w, e, con, lab, mom_data, est_par, theta0,
          obj_at_theta0, last, ncalls, nfev, best, results, w_gen, gen, log>>

-----------------------------------------------------------------------------
(* Bounds of the model.                                                    *)

\* largest number n of individuals (the notebook uses n = 10000)
MaxN == 3
\* replications per individual in one objective evaluation (notebook: 100)
S == 2
\* most objective evaluations the minimizer makes in one run
MaxEvals == 2

-----------------------------------------------------------------------------
(* Fixed-point floats.                                                     *)

\* units per 1.0
SCALE == 10^3

F(x) == [fin |-> TRUE, v |-> x]
NaN == [fin |-> FALSE, v |-> 0]

Abs(x) == IF x < 0 THEN -x ELSE x

\* integer division truncating toward zero
TDiv(a, b) ==
    IF (a < 0) = (b < 0) THEN Abs(a) \div Abs(b) ELSE -(Abs(a) \div Abs(b))

FAdd(a, b) == IF a.fin /\ b.fin THEN F(a.v + b.v) ELSE NaN
FSub(a, b) == IF a.fin /\ b.fin THEN F(a.v - b.v) ELSE NaN
FMul(a, b) == IF a.fin /\ b.fin THEN F(TDiv(a.v * b.v, SCALE)) ELSE NaN
\* x/0 is nan or +-inf in numpy (a warning, no exception): non-finite
FDiv(a, b) ==
    IF a.fin /\ b.fin /\ b.v # 0 THEN F(TDiv(a.v * SCALE, b.v)) ELSE NaN

RECURSIVE SqrtIter(_, _, _)
SqrtIter(x, lo, hi) ==
    IF lo >= hi THEN lo
    ELSE LET mid == (lo + hi + 1) \div 2
         IN IF mid * mid <= x THEN SqrtIter(x, mid, hi)
            ELSE SqrtIter(x, lo, mid - 1)

\* floor of the square root of a natural number
ISqrt(x) == SqrtIter(x, 0, 46340)

FSqrt(a) == IF a.fin /\ a.v >= 0 THEN F(ISqrt(a.v * SCALE)) ELSE NaN

\* an integer count as a float
FInt(k) == F(k * SCALE)

One == F(SCALE)
Zero == F(0)

RECURSIVE FSum(_)
FSum(xs) == IF Len(xs) = 0 THEN Zero ELSE FAdd(Head(xs), FSum(Tail(xs)))

-----------------------------------------------------------------------------
(* numpy reductions used by the moment function.                           *)

\* np.mean: sum / size; the mean of an empty array is nan
np_mean(xs) == FDiv(FSum(xs), FInt(Len(xs)))

\* the array xs - np.mean(xs)
Centered(xs) == LET m == np_mean(xs) IN [i \in 1..Len(xs) |-> FSub(xs[i], m)]

\* np.var: population variance, mean(|x - mean|^2) (ddof = 0)
np_var(xs) ==
    LET d == Centered(xs)
    IN np_mean([i \in 1..Len(xs) |-> FMul(d[i], d[i])])

\* np.cov entry: sum((x - mx)(y - my)) / (size - 1) (ddof = 1)
np_cov(xs, ys) ==
    LET dx == Centered(xs)
        dy == Centered(ys)
    IN FDiv(FSum([i \in 1..Len(xs) |-> FMul(dx[i], dy[i])]), FInt(Len(xs) - 1))

\* np.clip(c, -1, 1); nan stays nan
Clip1(c) ==
    IF ~c.fin THEN NaN
    ELSE IF c.v > SCALE THEN One
    ELSE IF c.v < -SCALE THEN F(-SCALE)
    ELSE c

\* np.corrcoef(x, y)[0,1]: cov / stddev_x / stddev_y, clipped to [-1, 1]
np_corrcoef(xs, ys) ==
    LET c == np_cov(xs, ys)
        sx == FSqrt(np_cov(xs, xs))
        sy == FSqrt(np_cov(ys, ys))
    IN Clip1(FDiv(FDiv(c, sx), sy))

\* faulty variant: the second moment is the labor of the first individual
moments_fun_FirstLabor(ww, cc, ll) ==
    <<np_corrcoef(ww, cc), ll[1], np_var(cc)>>

\* faulty variant: the mean and the variance change places
moments_fun_Swapped(ww, cc, ll) ==
    <<np_corrcoef(ww, cc), np_var(cc), np_mean(ll)>>

\* moments_fun = lambda w,con,lab: np.array([corrcoef, mean(lab), var(con)])
moments_fun(ww, cc, ll) ==
    <<np_corrcoef(ww, cc), np_mean(ll), np_var(cc)>>

-----------------------------------------------------------------------------
(* The economic model: closed form solution.                               *)

ParNames == {"gamma", "tau", "sigma"}

\* faulty variant: the shock enters consumption without the factor gamma
c_star_ShockUnweighted(ww, ee, p) ==
    [i \in 1..Len(ww) |->
        FAdd(FMul(FMul(p["gamma"], FSub(One, p["tau"])), ww[i]), ee[i])]

\* c_star = gamma (1 - tau) w_i + gamma eps_i, elementwise
c_star(ww, ee, p) ==
    [i \in 1..Len(ww) |->
        FAdd(FMul(FMul(p["gamma"], FSub(One, p["tau"])), ww[i]),
             FMul(p["gamma"], ee[i]))]

\* np.clip(x, 0, 1); nan stays nan
Clip01(x) ==
    IF ~x.fin THEN NaN
    ELSE IF x.v > SCALE THEN One ELSE IF x.v < 0 THEN Zero ELSE x

\* faulty variant: the closed form clipped to the unit interval
l_star_Clipped(ww, ee, p) ==
    [i \in 1..Len(ww) |->
        Clip01(FAdd(FSub(One, p["gamma"]),
                    FDiv(FMul(FSub(One, p["gamma"]), ee[i]),
                         FMul(FSub(One, p["tau"]), ww[i]))))]

\* l_star = (1 - gamma) + (1 - gamma) eps_i / ((1 - tau) w_i), elementwise
l_star(ww, ee, p) ==
    [i \in 1..Len(ww) |->
        FAdd(FSub(One, p["gamma"]),
             FDiv(FMul(FSub(One, p["gamma"]), ee[i]),
                  FMul(FSub(One, p["tau"]), ww[i])))]

-----------------------------------------------------------------------------
(* numpy's global random generator.  Its internals are outside the         *)
(* program; it is modelled as a seeded deterministic sequence: a small     *)
(* linear congruential generator whose draws are -1, 0 or 1.               *)

\* np.random.seed(s): the generator state is a function of the seed alone
np_random_seed(s) == s % 16

NextRng(r) == (5 * r + 3) % 16

\* the standard-normal deviate read off a generator state
Normal(r) == FInt((r % 3) - 1)

\* np.random.normal(size=k), starting from generator state r
RECURSIVE np_random_normal(_, _)
np_random_normal(r, k) ==
    IF k = 0 THEN <<>>
    ELSE <<Normal(NextRng(r))>> \o np_random_normal(NextRng(r), k - 1)

\* the generator state after k draws from state r
RECURSIVE RngAfter(_, _)
RngAfter(r, k) == IF k = 0 THEN r ELSE RngAfter(NextRng(r), k - 1)

\* np.exp on the lattice of draws
np_exp(z) ==
    IF z.v = -SCALE THEN F(368) ELSE IF z.v = 0 THEN F(1000) ELSE F(2718)

-----------------------------------------------------------------------------
(* The objective function model.obj_fun.                                   *)

\* the names in the sequence names
Range(names) == {names[k] : k \in 1..Len(names)}

\* the place of a parameter in the record (gamma, tau, sigma)
Position(nm) == IF nm = "gamma" THEN 1 ELSE IF nm = "tau" THEN 2 ELSE 3

\* the value returned when the merged parameters are outside the model's
\* domain, in units of 1/SCALE^2 (1000.0)
PENALTY == 10^9

\* faulty variant: theta is read in the order gamma, tau, sigma of the record,
\* whatever the order of names
Merge_RecordOrder(theta, names, p) ==
    LET rank(nm) ==
            Cardinality({m \in Range(names) :
                            Position(m) <= Position(nm)})
    IN [nm \in DOMAIN p |->
            IF nm \in Range(names) THEN theta[rank(nm)] ELSE p[nm]]

\* theta overlaid on a copy of p: the entry named names[k] becomes theta[k]
\* (the last k wins), every other entry keeps p's value
Merge(theta, names, p) ==
    [nm \in DOMAIN p |->
        LET ks == {k \in 1..Len(names) : names[k] = nm}
        IN IF ks = {} THEN p[nm]
           ELSE theta[CHOOSE k \in ks : \A j \in ks : j <= k]]

\* faulty variant: the wages are not replicated
Stack_Once(ww) == ww

\* w repeated for each of the S replications, stacked into one vector
Stack(ww) == [j \in 1..(Len(ww) * S) |-> ww[((j - 1) % Len(ww)) + 1]]

\* the square of a - b, kept exact in units of 1/SCALE^2
SqDiff(a, b) == IF a.fin /\ b.fin THEN F((a.v - b.v) * (a.v - b.v)) ELSE NaN

\* faulty variant: the absolute deviations are added up, not their squares
Q_AbsDev(md, ms) ==
    FSum([k \in 1..Len(md) |->
            IF md[k].fin /\ ms[k].fin THEN F(Abs(md[k].v - ms[k].v)) ELSE NaN])

\* faulty variant: the deviations are added up without being squared
Q_NoSquare(md, ms) == FSum([k \in 1..Len(md) |-> FSub(md[k], ms[k])])

\* Q = (mom_data - mom_sim)'(mom_data - mom_sim)
Q(md, ms) == FSum([k \in 1..Len(md) |-> SqDiff(md[k], ms[k])])

\* the merged parameters lie outside the domain of the closed form
OutOfDomain(p, ww) ==
    \/ ~p["tau"].fin
    \/ p["tau"].v >= SCALE
    \/ \E i \in 1..Len(ww) : ~ww[i].fin \/ ww[i].v <= 0

\* np.random.seed(2019)
SEED == 2019

\* faulty variant: every call re-seeds the generator before it draws
ShockState_Reseeded(r) == np_random_seed(SEED)

\* the generator state a call draws its shocks from, the global generator
\* being in state r: the call draws from the global generator as it is
ShockState(r) == r

\* Steps 1 to 4 of a call with the generator in state r: the merged
\* parameters, the fresh shocks, the stacked dataset and its moments
Simulate(theta, names, ww, p0, r) ==
    LET p == Merge(theta, names, p0)
        k == Len(ww) * S
        r0 == ShockState(r)
        draws == np_random_normal(r0, k)
        E == [j \in 1..k |-> FMul(p["sigma"], draws[j])]
        W == Stack(ww)
        C == c_star(W, E, p)
        L == l_star(W, E, p)
    IN [theta |-> theta, names |-> names, base |-> p0, p |-> p,
        rng0 |-> r0, rng |-> RngAfter(r0, k),
        w_sim |-> W, e_sim |-> E, c_sim |-> C, l_sim |-> L,
        mom_sim |-> moments_fun(W, C, L)]

\* the record of a call: the simulation sim, the returned value, and the
\* state in which the call leaves the objects passed by reference
CallRecord(sim, value, par_after, w_after) ==
    [theta |-> sim.theta, names |-> sim.names, base |-> sim.base,
     p |-> sim.p, rng0 |-> sim.rng0, rng |-> sim.rng,
     w_sim |-> sim.w_sim, e_sim |-> sim.e_sim, c_sim |-> sim.c_sim,
     l_sim |-> sim.l_sim, mom_sim |-> sim.mom_sim,
     value |-> value, par |-> par_after, w |-> w_after]

\* faulty variant: no penalty, the distance is returned whatever the parameters
obj_fun_NoPenalty(theta, names, ww, md, p0, r) ==
    LET sim == Simulate(theta, names, ww, p0, r)
    IN CallRecord(sim, Q(md, sim.mom_sim), p0, ww)

\* faulty variant: theta is written into the caller's par, not into a copy
obj_fun_InPlace(theta, names, ww, md, p0, r) ==
    LET sim == Simulate(theta, names, ww, p0, r)
    IN CallRecord(sim,
                  IF OutOfDomain(sim.p, ww) THEN F(PENALTY)
                  ELSE Q(md, sim.mom_sim),
                  sim.p, ww)

\* faulty variant: the caller's w is replaced by the stacked vector
obj_fun_StackInPlace(theta, names, ww, md, p0, r) ==
    LET sim == Simulate(theta, names, ww, p0, r)
    IN CallRecord(sim,
                  IF OutOfDomain(sim.p, ww) THEN F(PENALTY)
                  ELSE Q(md, sim.mom_sim),
                  p0, sim.w_sim)

\* One call obj_fun(theta, est_par, w, mom_data, moments_fun, par) with the
\* generator in state r.  The result records the returned value, the state
\* in which the call leaves the objects it was passed by reference (par, w)
\* and the generator, and the intermediate values of the call.
obj_fun(theta, names, ww, md, p0, r) ==
    LET sim == Simulate(theta, names, ww, p0, r)
    IN CallRecord(sim,
                  IF OutOfDomain(sim.p, ww) THEN F(PENALTY)
                  ELSE Q(md, sim.mom_sim),
                  p0, ww)

-----------------------------------------------------------------------------
(* The notebook.                                                           *)

\* est_par: the parameters to estimate, in the order of the optimizer's vector
EstParChoices ==
    {<<"gamma", "tau", "sigma">>, <<"gamma", "tau">>, <<"tau", "gamma">>,
     <<"sigma">>}

\* the initial guess of each parameter (theta0 = [0.4, 0.15, 0.9])
Guess == [nm \in ParNames |->
            IF nm = "gamma" THEN F(400) ELSE IF nm = "tau" THEN F(150) ELSE F(900)]

Theta0For(names) == [k \in 1..Len(names) |-> Guess[names[k]]]

\* values of one parameter that the minimizer may propose
Cand(nm) ==
    IF nm = "gamma" THEN {F(0), F(400), F(500)}
    ELSE IF nm = "tau" THEN {F(150), F(200), F(1000), F(1500)}
    ELSE {F(0), F(900), F(1000)}

AllCand == UNION {Cand(nm) : nm \in ParNames}

\* the vectors the minimizer may propose for est_par = names
Candidates(names) ==
    {th \in [1..Len(names) -> AllCand] :
        \A k \in 1..Len(names) : th[k] \in Cand(names[k])}

NoCall == [value |-> NaN]

Init ==
    /\ pc = "cell10"
    /\ rng \in 0..15
    /\ par = <<>>
    /\ true = <<>>
    /\ n = 0
    /\ w = <<>>
    /\ e = <<>>
    /\ con = <<>>
    /\ lab = <<>>
    /\ w_gen = <<>>
    /\ mom_data = <<>>
    /\ est_par = <<>>
    /\ theta0 = <<>>
    /\ obj_at_theta0 = NaN
    /\ last = NoCall
    /\ ncalls = 0
    /\ nfev = 0
    /\ best = NoCall
    /\ results = NoCall
    /\ gen = [con |-> <<>>, lab |-> <<>>, runs |-> 0, moved |-> FALSE]
    /\ log = [first |-> NoCall, prev |-> NoCall, run |-> 0]

\* faulty variant: the cell draws without seeding the generator
SeededState_NotSeeded(r) == r

\* np.random.seed(2019) with the generator in state r: the state the cell
\* starts drawing from
SeededState(r) == np_random_seed(SEED)

\* the body of cell 10 for n = nn: true parameters and the observed dataset
DataCell(nn) ==
    LET p == [nm \in ParNames |->
                IF nm = "gamma" THEN F(500)
                ELSE IF nm = "tau" THEN F(200) ELSE F(1000)]
        r0 == SeededState(rng)
        z == np_random_normal(r0, nn)
        ww == [i \in 1..nn |-> np_exp(z[i])]
        r1 == RngAfter(r0, nn)
        d == np_random_normal(r1, nn)
        ee == [i \in 1..nn |-> FMul(p["sigma"], d[i])]
        first == gen.runs = 0
    IN /\ par' = p
       /\ true' = p
       /\ n' = nn
       /\ w' = ww
       /\ e' = ee
       /\ rng' = RngAfter(r1, nn)
       /\ con' = c_star(ww, ee, p)
       /\ lab' = l_star(ww, ee, p)
       /\ w_gen' = IF first THEN ww ELSE w_gen
       /\ gen' = [con |-> IF first THEN con' ELSE gen.con,
                  lab |-> IF first THEN lab' ELSE gen.lab,
                  runs |-> gen.runs + 1,
                  moved |-> ~first /\ rng # r0]

\* cell 10, run for the first time
SimulateData ==
    /\ pc = "cell10"
    /\ \E nn \in 1..MaxN : DataCell(nn)
    /\ pc' = "cell17"
    /\ UNCHANGED <<mom_data, est_par, theta0, obj_at_theta0, last, ncalls,
                   nfev, best, results, log>>

\* cell 10, run once more after the objective was evaluated in cell 27 and
\* before the minimizer of cell 30 starts
RerunData ==
    /\ pc = "cell30"
    /\ nfev = 0
    /\ gen.runs = 1
    /\ DataCell(n)
    /\ UNCHANGED <<pc, mom_data, est_par, theta0, obj_at_theta0, last, ncalls,
                   nfev, best, results, log>>

\* cell 17: the moments in the data
DataMoments ==
    /\ pc = "cell17"
    /\ mom_data' = moments_fun(w, con, lab)
    /\ pc' = "cell25"
    /\ UNCHANGED <<rng, par, true, n, w, e, con, lab, est_par, theta0,
                   obj_at_theta0, last, ncalls, nfev, best, results, w_gen, gen,
                   log>>

\* cell 25: the parameters to estimate and the starting values
ChooseEstPar ==
    /\ pc = "cell25"
    /\ \E names \in EstParChoices :
        /\ est_par' = names
        /\ theta0' = Theta0For(names)
    /\ pc' = "cell27"
    /\ UNCHANGED <<rng, par, true, n, w, e, con, lab, mom_data,
                   obj_at_theta0, last, ncalls, nfev, best, results, w_gen, gen,
                   log>>

\* the effect of one call of model.obj_fun from the notebook on the
\* notebook's globals: par and w are passed by reference
CallObjFun(theta) ==
    LET c == obj_fun(theta, est_par, w, mom_data, par, rng)
    IN /\ last' = c
       /\ par' = c.par
       /\ w' = c.w
       /\ rng' = c.rng
       /\ ncalls' = ncalls + 1
       /\ log' = [first |-> IF ncalls = 0
                            THEN [theta |-> theta, rng0 |-> c.rng0,
                                  value |-> c.value]
                            ELSE log.first,
                  prev |-> IF ncalls = 0
                           THEN NoCall
                           ELSE [e_sim |-> last.e_sim, rng |-> last.rng,
                                 run |-> log.run, value |-> NaN],
                  run |-> gen.runs]

\* cell 27: the objective at theta0
ObjAtTheta0 ==
    /\ pc = "cell27"
    /\ CallObjFun(theta0)
    /\ obj_at_theta0' = last'.value
    /\ pc' = "cell30"
    /\ UNCHANGED <<true, n, e, con, lab, mom_data, est_par, theta0, nfev,
                   best, results, w_gen, gen>>

\* a < b on floats; false when either is non-finite
FLess(a, b) == a.fin /\ b.fin /\ a.v < b.v

\* cell 30: optimize.minimize calls the objective, first at theta0
MinimizeEval ==
    /\ pc = "cell30"
    /\ nfev < MaxEvals
    /\ \E theta \in Candidates(est_par) :
        /\ nfev = 0 => theta = theta0
        /\ CallObjFun(theta)
        /\ best' = IF nfev = 0 \/ FLess(last'.value, best.value)
                   THEN [x |-> theta, value |-> last'.value]
                   ELSE best
    /\ nfev' = nfev + 1
    /\ UNCHANGED <<pc, true, n, e, con, lab, mom_data, est_par, theta0,
                   obj_at_theta0, results, w_gen, gen>>

\* faulty variant: the minimizer returns only when it has converged; a run
\* stopped at its evaluation limit raises and leaves no result
MinimizeReturn_FailsAtLimit ==
    /\ pc = "cell30"
    /\ nfev >= 1
    /\ nfev < MaxEvals
    /\ results' = [x |-> best.x, fun |-> best.value, success |-> TRUE,
                   nfev |-> nfev]
    /\ pc' = "cell31"
    /\ UNCHANGED <<rng, par, true, n, w, e, con, lab, mom_data, est_par,
                   theta0, obj_at_theta0, last, ncalls, nfev, best, w_gen, gen,
                   log>>

\* cell 30: optimize.minimize returns its result object
MinimizeReturn ==
    /\ pc = "cell30"
    /\ nfev >= 1
    /\ \E ok \in BOOLEAN :
        results' = [x |-> best.x, fun |-> best.value, success |-> ok,
                    nfev |-> nfev]
    /\ pc' = "cell31"
    /\ UNCHANGED <<rng, par, true, n, w, e, con, lab, mom_data, est_par,
                   theta0, obj_at_theta0, last, ncalls, nfev, best, w_gen, gen,
                   log>>

\* cell 31: the table of true and estimated values
PrintTable ==
    /\ pc = "cell31"
    /\ pc' = "done"
    /\ UNCHANGED <<rng, par, true, n, w, e, con, lab, mom_data, est_par,
                   theta0, obj_at_theta0, last, ncalls, nfev, best, results,
                   w_gen, gen, log>>

Next ==
    \/ SimulateData
    \/ RerunData
    \/ DataMoments
    \/ ChooseEstPar
    \/ ObjAtTheta0
    \/ MinimizeEval
    \/ MinimizeReturn
    \/ PrintTable

Spec == Init /\ [][Next]_vars

-----------------------------------------------------------------------------
(* Properties.                                                             *)

\* obj_fun has been called at least once; last holds that call
Called == ncalls > 0

\* a, b are finite and equal in every position (float equality: nan # nan)
VecEq(a, b) ==
    /\ Len(a) = Len(b)
    /\ \A k \in 1..Len(a) : a[k].fin /\ b[k].fin /\ a[k].v = b[k].v

\* the three squared deviations of the last call, added up
SumSq3 ==
    FAdd(FAdd(SqDiff(mom_data[1], last.mom_sim[1]),
              SqDiff(mom_data[2], last.mom_sim[2])),
         SqDiff(mom_data[3], last.mom_sim[3]))

\* the last call's simulated moments are those of the dataset simulated at
\* the merged parameters
SimAtMerged ==
    last.mom_sim =
        moments_fun(last.w_sim, c_star(last.w_sim, last.e_sim, last.p),
                    l_star(last.w_sim, last.e_sim, last.p))

NonConstant(xs) == \E i, j \in 1..Len(xs) : xs[i] # xs[j]

\* the inputs of the last call are valid: positive wages, tau < 1,
\* sigma >= 0, and datasets of at least two observations in which neither
\* wage nor consumption is constant
ValidInputs ==
    /\ \A i \in 1..Len(w) : w[i].fin /\ w[i].v > 0
    /\ last.p["tau"].fin /\ last.p["tau"].v < SCALE
    /\ last.p["sigma"].fin /\ last.p["sigma"].v >= 0
    /\ Len(w) >= 2
    /\ NonConstant(w) /\ NonConstant(con)
    /\ NonConstant(last.w_sim) /\ NonConstant(last.c_sim)

C4_MergedRecord ==
    /\ Range(est_par) \subseteq ParNames
    /\ Len(theta0) = Len(est_par)
    /\ Called =>
        /\ last.names = est_par
        /\ Len(last.theta) = Len(last.names)
        /\ DOMAIN last.p = ParNames
        /\ \A k \in 1..Len(last.names) : last.p[last.names[k]] = last.theta[k]
        /\ \A nm \in ParNames \ Range(last.names) : last.p[nm] = last.base[nm]

\* a call that estimates tau and gamma in that order at values other than
\* the base ones, with sigma held fixed
C4_Witness ==
    /\ Called
    /\ last.names = <<"tau", "gamma">>
    /\ last.theta[1] # last.theta[2]
    /\ last.p["tau"] # last.base["tau"]
    /\ last.p["gamma"] # last.base["gamma"]
    /\ last.p["sigma"] = last.base["sigma"]

\* the parameters of the data generating process (gamma, tau, sigma)
TrueValues ==
    [nm \in ParNames |->
        IF nm = "gamma" THEN F(500) ELSE IF nm = "tau" THEN F(200) ELSE F(1000)]

C6_WagesUnchanged ==
    pc # "cell10" =>
        /\ Len(w) = n
        /\ Len(w_gen) = n
        /\ \A i \in 1..n : w[i] = w_gen[i]

\* two calls have stacked a wage vector of at least two different wages
C6_Witness ==
    /\ ncalls >= 2
    /\ NonConstant(w)
    /\ Len(last.w_sim) = n * S
    /\ w = w_gen

\* leisure as the closed form gives it for one observation
Leisure(wi, ei, p) ==
    FAdd(FSub(One, p["gamma"]),
         FDiv(FMul(FSub(One, p["gamma"]), ei), FMul(FSub(One, p["tau"]), wi)))

Consumption(wi, ei, p) ==
    FAdd(FMul(FMul(p["gamma"], FSub(One, p["tau"])), wi), FMul(p["gamma"], ei))

\* C8: c_star returns gamma (1-tau) w + gamma eps, the same value for the
\* same arguments, and gamma (1-tau) w when eps = 0.
C8_ConsumptionClosedForm ==
    /\ \A i \in 1..Len(con) :
        /\ con[i] = Consumption(w[i], e[i], par)
        /\ e[i] = Zero =>
               con[i] = FMul(FMul(par["gamma"], FSub(One, par["tau"])), w[i])
    /\ Called =>
        /\ \A j \in 1..Len(last.c_sim) :
            /\ last.c_sim[j] =
                   Consumption(last.w_sim[j], last.e_sim[j], last.p)
            /\ last.e_sim[j] = Zero =>
                   last.c_sim[j] =
                       FMul(FMul(last.p["gamma"], FSub(One, last.p["tau"])),
                            last.w_sim[j])
        /\ \A i, j \in 1..Len(last.c_sim) :
            (last.w_sim[i] = last.w_sim[j] /\ last.e_sim[i] = last.e_sim[j])
                => last.c_sim[i] = last.c_sim[j]

\* a call with gamma > 0 that used a zero, a positive and a negative shock
C8_Witness ==
    /\ Called
    /\ last.p["gamma"].v > 0
    /\ \E j \in 1..Len(last.e_sim) : last.e_sim[j].v = 0
    /\ \E j \in 1..Len(last.e_sim) : last.e_sim[j].v > 0
    /\ \E j \in 1..Len(last.e_sim) : last.e_sim[j].v < 0

\* a dataset of at most one observation, or with constant wage or
\* constant consumption
Degenerate(ww, cc) == Len(ww) <= 1 \/ ~NonConstant(ww) \/ ~NonConstant(cc)

\* C9 as stated: the moments of a degenerate dataset are never a NaN that
\* is handed on; no NaN moment reaches the objective value.
C9_DegenerateSignalled ==
    /\ (pc \notin {"cell10", "cell17"} /\ Degenerate(w, con)) =>
        \A k \in 1..Len(mom_data) : mom_data[k].fin
    /\ (Called /\ Degenerate(last.w_sim, last.c_sim)) =>
        /\ \A k \in 1..Len(last.mom_sim) : last.mom_sim[k].fin
        /\ last.value.fin

\* population variance (ddof = 0) of xs
PopVar(xs) ==
    LET m == FDiv(FSum(xs), FInt(Len(xs)))
    IN FDiv(FSum([i \in 1..Len(xs) |->
                    FMul(FSub(xs[i], m), FSub(xs[i], m))]), FInt(Len(xs)))

\* C10: the moment vector has exactly three entries, in the order
\* correlation(wage, consumption), mean(labor), variance(consumption), the
\* variance being the population variance, for the data and for every
\* simulated dataset alike, and the objective compares the two vectors
\* position by position.
C10_MomentOrder ==
    /\ pc \notin {"cell10", "cell17"} =>
        /\ Len(mom_data) = 3
        /\ mom_data[1] = np_corrcoef(w, con)
        /\ mom_data[2] = FDiv(FSum(lab), FInt(Len(lab)))
        /\ mom_data[3] = PopVar(con)
    /\ Called =>
        /\ Len(last.mom_sim) = 3
        /\ last.mom_sim[1] = np_corrcoef(last.w_sim, last.c_sim)
        /\ last.mom_sim[2] = FDiv(FSum(last.l_sim), FInt(Len(last.l_sim)))
        /\ last.mom_sim[3] = PopVar(last.c_sim)
        /\ last.p["tau"].v < SCALE =>
               last.value =
                   FSum([k \in 1..3 |-> SqDiff(mom_data[k], last.mom_sim[k])])

\* a call whose three simulated moments are finite and pairwise different,
\* as are the three moments of the data
C10_Witness ==
    /\ Called
    /\ \A k \in 1..3 : mom_data[k].fin /\ last.mom_sim[k].fin
    /\ Cardinality({mom_data[k] : k \in 1..3}) = 3
    /\ Cardinality({last.mom_sim[k] : k \in 1..3}) = 3

\* C11: running the data cell again (seed 2019, n log-wages, n shocks,
\* consumption, labor) reproduces the w, con and lab of its first run,
\* whatever state the generator was in when the cell was entered.
C11_SameSeedSameData ==
    gen.runs >= 1 =>
        /\ w = w_gen
        /\ con = gen.con
        /\ lab = gen.lab

\* the cell has run twice, the second time after a call of the objective
\* had moved the generator away from the seeded state, and the data has a
\* non-zero shock and two different wages
C11_Witness ==
    /\ gen.runs = 2
    /\ gen.moved
    /\ Called
    /\ NonConstant(w)
    /\ \E i \in 1..Len(e) : e[i] # Zero
    /\ w = w_gen /\ con = gen.con /\ lab = gen.lab

\* the permutations of 1..k
Perms(k) ==
    {p \in [1..k -> 1..k] : \A i, j \in 1..k : p[i] = p[j] => i = j}

\* xs o p
Permute(xs, p) == [i \in 1..Len(xs) |-> xs[p[i]]]

\* the exchange of the first two indices, the shift by one and the
\* reversal of 1..k; the first two generate every permutation
Shuffles(k) ==
    {[i \in 1..k |-> IF i = 1 /\ k > 1 THEN 2 ELSE IF i = 2 THEN 1 ELSE i],
     [i \in 1..k |-> (i % k) + 1],
     [i \in 1..k |-> k + 1 - i]}

\* C12: moments_fun gives the same moment vector when its three vectors
\* are permuted together: for every permutation of the observed dataset
\* that cell 17 reduces, and for the exchange, the shift and the reversal
\* of the simulated dataset of every call of the objective.
C12_PermutationInvariant ==
    /\ pc = "cell17" =>
          \A p \in Perms(n) :
              moments_fun(Permute(w, p), Permute(con, p), Permute(lab, p))
                  = moments_fun(w, con, lab)
    /\ Called =>
          \A p \in Shuffles(Len(last.w_sim)) :
              moments_fun(Permute(last.w_sim, p), Permute(last.c_sim, p),
                          Permute(last.l_sim, p)) = last.mom_sim

\* a call whose simulated dataset has finite moments, two different
\* wages, two different labor supplies and a first labor supply that is
\* not the mean, and whose reversal is a different dataset
C12_Witness ==
    /\ Called
    /\ \A k \in 1..3 : last.mom_sim[k].fin
    /\ NonConstant(last.w_sim)
    /\ NonConstant(last.l_sim)
    /\ last.l_sim[1] # last.mom_sim[2]
    /\ Permute(last.l_sim, [i \in 1..Len(last.l_sim) |->
                                Len(last.l_sim) + 1 - i]) # last.l_sim

\* C13: the minimizer always comes back with an estimate and a flag.  Once
\* it has evaluated the objective it can return, and it can return with
\* success = FALSE (it stopped without converging, at the latest at its
\* evaluation limit); whatever the flag, the result holds a point of the
\* right length, the best point found, which no later evaluation beat,
\* and the following cell runs.
C13_ReturnsEstimateAndFlag ==
    /\ (pc = "cell30" /\ nfev >= 1) =>
          ENABLED (MinimizeReturn /\ results'.success = FALSE)
    /\ pc \in {"cell31", "done"} =>
          /\ results.success \in BOOLEAN
          /\ results.x \in Candidates(est_par)
          /\ results.x = best.x
          /\ results.fun = best.value
          /\ ~FLess(last.value, results.fun)
          /\ results.nfev = nfev
          /\ nfev >= 1
    /\ pc = "cell31" => ENABLED PrintTable

\* the minimizer stopped at its evaluation limit without converging and
\* the table was printed; the returned point is not the last one
\* evaluated, which was worse
C13_Witness ==
    /\ pc = "done"
    /\ results.success = FALSE
    /\ results.nfev = MaxEvals
    /\ results.x # last.theta
    /\ FLess(results.fun, last.value)

\* how many entries of xs equal v
Count(xs, v) == Cardinality({j \in 1..Len(xs) : xs[j] = v})

\* the observations of individual i in the last call's vector xs, one per
\* replication
OfIndividual(xs, i) == [s \in 1..S |-> xs[(s - 1) * n + i]]

\* the variance of consumption taken per individual over its replications
\* and then averaged over the individuals
AveragedVar ==
    np_mean([i \in 1..n |-> np_var(OfIndividual(last.c_sim, i))])

\* C14: in one evaluation of the objective the simulated dataset has
\* exactly n * S observations; every wage of w appears S times as often as
\* in w; the j-th observation carries the j-th shock drawn in the call
\* (sigma times the j-th draw), and its consumption and labor are computed
\* from that wage and that shock; the moments are moments_fun applied once
\* to the n * S pooled observations.
C14_PooledDataset ==
    Called =>
        LET k == n * S
            draws == np_random_normal(last.rng0, k)
        IN /\ Len(last.w_sim) = k
           /\ Len(last.e_sim) = k
           /\ Len(last.c_sim) = k
           /\ Len(last.l_sim) = k
           /\ \A i \in 1..n :
                  Count(last.w_sim, w[i]) = S * Count(w, w[i])
           /\ \A j \in 1..k :
                  /\ last.e_sim[j] = FMul(last.p["sigma"], draws[j])
                  /\ last.c_sim[j] =
                         Consumption(last.w_sim[j], last.e_sim[j], last.p)
           /\ last.l_sim = l_star(last.w_sim, last.e_sim, last.p)
           /\ last.mom_sim =
                  moments_fun(last.w_sim, last.c_sim, last.l_sim)
           /\ Len(last.mom_sim) = 3

\* a call on two or more individuals with different wages in which an
\* individual has different shocks in two replications, and the pooled
\* variance of consumption is not the average of the individuals'
\* variances
C14_Witness ==
    /\ Called
    /\ n >= 2
    /\ NonConstant(w)
    /\ \E i \in 1..n : NonConstant(OfIndividual(last.e_sim, i))
    /\ last.mom_sim[3].fin
    /\ AveragedVar.fin
    /\ last.mom_sim[3] # AveragedVar

\* the shocks of a call that draws k numbers with the generator in state r
\* and scales them by sigma
ShocksFrom(r, k, sigma) ==
    [j \in 1..k |-> FMul(sigma, np_random_normal(r, k)[j])]

====
